---- MODULE Spec2Model ----
(***************************************************************************)
(* The inkscape crate: a quick_xml event stream is split into leading      *)
(* events, layers (<g> ... </g> blocks holding classified objects) and     *)
(* trailing events; layers and objects are edited in place; the document   *)
(* is written back event by event.                                         *)
(***************************************************************************)
EXTENDS Integers, Sequences, FiniteSets, TLC

VARIABLES
    input,            \* the events the reader has returned so far (Eof and Err excluded)
    eofReads,         \* how many times the reader has returned Event::Eof
    pc,               \* where the program is: a parse loop, "done", "err", "panic", "written"
    leading_events,   \* Inkscape.leading_events (`out` of parse::leading_events while parsing)
    layers,           \* Inkscape.layers (`out` of parse::layers while parsing)
    grp,              \* the locals of parse::group while a group is being read
    trailing_events,  \* Inkscape.trailing_events (`out` of parse::trailing_events while parsing)
    ret,              \* what the last call returned
    written,          \* the events the writer has accepted
    iter              \* the IdIterator in use, if any

vars == <<input, eofReads, pc, leading_events, layers, grp, trailing_events, ret, written, iter>>

---------------------------------------------------------------------------
(* Bounds of the model *)

\* non-Eof events one input stream delivers
MaxTokens == 4
\* reads the reader answers with Eof before the model stops following a loop
MaxEofReads == 2
\* layers of a document the editing operations are explored on
MaxDocLayers == 2
\* layers of a document the id iterator is explored on
MaxIterLayers == 4

---------------------------------------------------------------------------
(* Events and attributes *)

Att(k, v) == [key |-> k, value |-> v]

Start(n, a) == [type |-> "Start", name |-> n, atts |-> a]
End(n)      == [type |-> "End", name |-> n, atts |-> <<>>]
Empty(n, a) == [type |-> "Empty", name |-> n, atts |-> a]
Text(t)     == [type |-> "Text", name |-> t, atts |-> <<>>]
Comment(t)  == [type |-> "Comment", name |-> t, atts |-> <<>>]
Eof         == [type |-> "Eof", name |-> "", atts |-> <<>>]
\* the reader returning Err(_) instead of an event
ReadErr     == [type |-> "Err", name |-> "", atts |-> <<>>]

\* an attribute value that is not valid UTF-8
BadUtf8 == "<0xff>"
from_utf8_ok(v) == v # BadUtf8

\* str::parse::<f64> on the attribute values of the model
F64Text == {"10", "20", "30", "40"}
parse_ok(v) == v \in F64Text
parse_f64(v) ==
    CASE v = "10" -> 10
      [] v = "20" -> 20
      [] v = "30" -> 30
      [] v = "40" -> 40

None == <<>>
Some(x) == <<x>>

RECURSIVE SelectAtts(_, _, _)
\* the attributes of `atts` from index i on for which keep[index] holds
SelectAtts(atts, keep, i) ==
    IF i > Len(atts) THEN <<>>
    ELSE IF keep[i] THEN <<atts[i]>> \o SelectAtts(atts, keep, i + 1)
    ELSE SelectAtts(atts, keep, i + 1)

\* elem.attributes().filter_map(Result::ok): the iterator checks keys for
\* uniqueness, so an attribute repeating an earlier key is an Err and is dropped
attributes_ok(atts) ==
    SelectAtts(atts,
               [i \in 1..Len(atts) |-> \A j \in 1..(i - 1) : atts[j].key # atts[i].key],
               1)

\* .filter(|att| att.key != QName(key))
without_key(atts, k) ==
    SelectAtts(atts, [i \in 1..Len(atts) |-> atts[i].key # k], 1)

\* .find(|att| att.key == QName(key)) on an attribute sequence
find_key(atts, k) ==
    IF \E i \in 1..Len(atts) : atts[i].key = k
    THEN Some(atts[CHOOSE i \in 1..Len(atts) :
                     /\ atts[i].key = k
                     /\ \A j \in 1..(i - 1) : atts[j].key # k])
    ELSE None

\* start_event.try_get_attribute(key): the first attribute with that key, no
\* uniqueness check
try_get_attribute(atts, k) == find_key(atts, k)

---------------------------------------------------------------------------
(* Errors *)

MissingLayerId(ev)   == [error |-> "MissingLayerId", element |-> ev]
MissingLayerName(ev) == [error |-> "MissingLayerName", event |-> ev]
MissingLayerEnd(n)   == [error |-> "MissingLayerEnd", layer_name |-> n]
ParseObject(e, n)    == [error |-> "ParseObject", cause |-> e, layer_name |-> n]
DimensionUtf8(d)     == [error |-> "DimensionUtf8", dimension |-> d]
DimensionParse(d)    == [error |-> "DimensionParse", dimension |-> d]
MissingObjectIdentifier(elem, w, h, id) ==
    [error |-> "MissingObjectIdentifier", element |-> elem, width |-> w, height |-> h, id |-> id]
MissingId(id)        == [error |-> "MissingId", id |-> id]

IdentifierErrors == {"DimensionUtf8", "DimensionParse", "MissingObjectIdentifier"}

Ok(v)  == [ok |-> TRUE, value |-> v]
Err(e) == [ok |-> FALSE, err |-> e]

---------------------------------------------------------------------------
(* object.rs: Identifiers, Object *)

RECURSIVE from_elem_loop(_, _, _, _, _)
\* the `for att in atts` loop of Identifiers::from_elem; w, h, id are Options
from_elem_loop(atts, i, w, h, id) ==
    IF i > Len(atts) THEN Ok([width |-> w, height |-> h, id |-> id])
    ELSE LET att == atts[i] IN
         IF att.key = "width" THEN
             IF ~from_utf8_ok(att.value) THEN Err(DimensionUtf8("Width"))
             ELSE IF ~parse_ok(att.value) THEN Err(DimensionParse("Width"))
             ELSE from_elem_loop(atts, i + 1, Some(parse_f64(att.value)), h, id)
         ELSE IF att.key = "height" THEN
             IF ~from_utf8_ok(att.value) THEN Err(DimensionUtf8("Height"))
             ELSE IF ~parse_ok(att.value) THEN Err(DimensionParse("Width"))
             ELSE from_elem_loop(atts, i + 1, w, Some(parse_f64(att.value)), id)
         ELSE IF att.key = "id" THEN
             IF ~from_utf8_ok(att.value) THEN Err(DimensionUtf8("Id"))
             ELSE from_elem_loop(atts, i + 1, w, h, Some(att.value))
         ELSE from_elem_loop(atts, i + 1, w, h, id)

\* Identifiers::from_elem
from_elem(elem) ==
    LET atts == SelectAtts(attributes_ok(elem.atts),
                           [i \in 1..Len(attributes_ok(elem.atts)) |->
                               attributes_ok(elem.atts)[i].key \in {"width", "height", "id"}],
                           1)
        r == from_elem_loop(atts, 1, None, None, None)
    IN  IF ~r.ok THEN r
        ELSE IF r.value.width # None /\ r.value.height # None /\ r.value.id # None
        THEN Ok([id |-> r.value.id[1], width |-> r.value.width[1], height |-> r.value.height[1]])
        ELSE Err(MissingObjectIdentifier(elem, r.value.width, r.value.height, r.value.id))

\* BytesStart: the element of an Empty or Start event
Element(ev) == [name |-> ev.name, atts |-> ev.atts]

Rectangle(ident, element) == [kind |-> "Rectangle", ident |-> ident, element |-> element]
Image(ident, element)     == [kind |-> "Image", ident |-> ident, element |-> element]
Other(ev)                 == [kind |-> "Other", event |-> ev]

\* Object::into_event
into_event(o) ==
    IF o.kind = "Other" THEN o.event
    ELSE Empty(o.element.name, o.element.atts)

\* parse::object with an identifier error swallowed: the element is kept as Other
object_swallowing(element) ==
    IF element.name \in {"image", "rect"} /\ from_elem(element).ok
    THEN Ok([kind |-> IF element.name = "image" THEN "Image" ELSE "Rectangle",
             ident |-> from_elem(element).value, element |-> element])
    ELSE Ok(Other(Empty(element.name, element.atts)))

\* parse::object
object(element) ==
    IF element.name = "image" THEN
        LET ident == from_elem(element) IN
        IF ident.ok THEN Ok(Image(ident.value, element)) ELSE ident
    ELSE IF element.name = "rect" THEN
        LET ident == from_elem(element) IN
        IF ident.ok THEN Ok(Rectangle(ident.value, element)) ELSE ident
    ELSE Ok(Other(Empty(element.name, element.atts)))

---------------------------------------------------------------------------
(* parse.rs: the parser, one reader result at a time *)

NoRet == [op |-> "none"]
ParseOk == [op |-> "parse_svg", ok |-> TRUE]
ParseErr(e) == [op |-> "parse_svg", ok |-> FALSE, err |-> e]

Layer(id, name, header, content, footer) ==
    [id |-> id, name |-> name, header |-> header, content |-> content, footer |-> footer]

\* parse::layer_name
layer_name(layer_start_event) ==
    LET found == find_key(attributes_ok(layer_start_event.atts), "inkscape:label") IN
    IF found = None THEN Err(MissingLayerName(layer_start_event))
    ELSE IF ~from_utf8_ok(found[1].value) THEN Err(MissingLayerName(layer_start_event))
    ELSE Ok(found[1].value)

\* parse::group up to its read loop with a missing label taken as an empty name
group_start_unnamed(start_event) ==
    LET id_attribute == try_get_attribute(start_event.atts, "id") IN
    IF id_attribute = None THEN Err(MissingLayerId(start_event))
    ELSE IF ~from_utf8_ok(id_attribute[1].value) THEN Err(MissingLayerId(start_event))
    ELSE LET name == layer_name(start_event) IN
         Ok([start_event |-> start_event, id |-> id_attribute[1].value,
             name |-> IF name.ok THEN name.value ELSE "", content |-> <<>>])

\* parse::group up to its read loop: id and name of the layer, empty content
group_start(start_event) ==
    LET id_attribute == try_get_attribute(start_event.atts, "id") IN
    IF id_attribute = None THEN Err(MissingLayerId(start_event))
    ELSE IF ~from_utf8_ok(id_attribute[1].value) THEN Err(MissingLayerId(start_event))
    ELSE LET name == layer_name(start_event) IN
         IF ~name.ok THEN name
         ELSE Ok([start_event |-> start_event, id |-> id_attribute[1].value,
                  name |-> name.value, content |-> <<>>])

\* the call group(element, reader, buffer)? of parse::layers and, through
\* parse_svg, of the <g> that ends parse::leading_events
enter_group(st, element) ==
    LET g == group_start(element) IN
    IF g.ok THEN [st EXCEPT !.pc = "group", !.grp = Some(g.value)]
    ELSE [st EXCEPT !.pc = "err", !.ret = ParseErr(g.err)]

\* one pass of the loop of parse::leading_events on the reader's result ev
leading_events_step(st, ev) ==
    IF ev.type = "Err"
    THEN \* (out, None): parse_svg returns a document without layers
         [st EXCEPT !.pc = "done", !.ret = ParseOk]
    ELSE IF ev.type = "Start" /\ ev.name = "g" THEN enter_group(st, ev)
    ELSE [st EXCEPT !.leading_events = Append(@, ev)]

\* the loop of parse::group leaving text and comments out of the content
group_step_skips_text(st, ev) ==
    LET g == st.grp[1] IN
    IF ev.type = "Err"
    THEN LET name == layer_name(g.start_event) IN
         [st EXCEPT !.pc = "err",
                    !.ret = ParseErr(IF name.ok THEN MissingLayerEnd(name.value) ELSE name.err)]
    ELSE IF ev.type = "Empty"
    THEN LET o == object(Element(ev)) IN
         IF o.ok
         THEN [st EXCEPT !.grp = Some([g EXCEPT !.content = Append(@, o.value)])]
         ELSE [st EXCEPT !.pc = "err",
                         !.ret = ParseErr(ParseObject(o.err, layer_name(g.start_event).value))]
    ELSE IF ev.type = "End" /\ ev.name = "g"
    THEN [st EXCEPT !.pc = "layers", !.grp = None,
                    !.layers = Append(@, Layer(g.id, g.name, g.start_event, g.content, ev))]
    ELSE IF ev.type \in {"Text", "Comment"} THEN st
    ELSE [st EXCEPT !.grp = Some([g EXCEPT !.content = Append(@, Other(ev))])]

\* the loop of parse::group keeping an element that fails to classify as Other
group_step_keeps_failed(st, ev) ==
    LET g == st.grp[1] IN
    IF ev.type = "Err"
    THEN LET name == layer_name(g.start_event) IN
         [st EXCEPT !.pc = "err",
                    !.ret = ParseErr(IF name.ok THEN MissingLayerEnd(name.value) ELSE name.err)]
    ELSE IF ev.type = "Empty"
    THEN LET o == object(Element(ev)) IN
         [st EXCEPT !.grp = Some([g EXCEPT !.content =
                                     Append(@, IF o.ok THEN o.value ELSE Other(ev))])]
    ELSE IF ev.type = "End" /\ ev.name = "g"
    THEN [st EXCEPT !.pc = "layers", !.grp = None,
                    !.layers = Append(@, Layer(g.id, g.name, g.start_event, g.content, ev))]
    ELSE [st EXCEPT !.grp = Some([g EXCEPT !.content = Append(@, Other(ev))])]

\* one pass of the loop of parse::group on the reader's result ev
group_step(st, ev) ==
    LET g == st.grp[1] IN
    IF ev.type = "Err"
    THEN LET name == layer_name(g.start_event) IN
         [st EXCEPT !.pc = "err",
                    !.ret = ParseErr(IF name.ok THEN MissingLayerEnd(name.value) ELSE name.err)]
    ELSE IF ev.type = "Empty"
    THEN LET o == object(Element(ev)) IN
         IF o.ok
         THEN [st EXCEPT !.grp = Some([g EXCEPT !.content = Append(@, o.value)])]
         ELSE [st EXCEPT !.pc = "err",
                         !.ret = ParseErr(ParseObject(o.err, layer_name(g.start_event).value))]
    ELSE IF ev.type = "End" /\ ev.name = "g"
    THEN [st EXCEPT !.pc = "layers", !.grp = None,
                    !.layers = Append(@, Layer(g.id, g.name, g.start_event, g.content, ev))]
    ELSE [st EXCEPT !.grp = Some([g EXCEPT !.content = Append(@, Other(ev))])]

\* the loop of parse::layers returning a text event as the first trailing event
layers_step_text_ends(st, ev) ==
    IF ev.type = "Err" THEN [st EXCEPT !.pc = "panic"]
    ELSE IF ev.type = "Start" /\ ev.name = "g" THEN enter_group(st, ev)
    ELSE IF ev.type = "End" /\ ev.name = "text" THEN [st EXCEPT !.pc = "panic"]
    ELSE IF ev.type \in {"Start", "End", "Text"}
    THEN [st EXCEPT !.pc = "trailing_events", !.trailing_events = <<ev>>]
    ELSE st

\* one pass of the loop of parse::layers on the reader's result ev
layers_step(st, ev) ==
    IF ev.type = "Err" THEN [st EXCEPT !.pc = "panic"]
    ELSE IF ev.type = "Start"
    THEN IF ev.name = "g" THEN enter_group(st, ev)
         ELSE [st EXCEPT !.pc = "trailing_events", !.trailing_events = <<ev>>]
    ELSE IF ev.type = "End"
    THEN IF ev.name = "text" THEN [st EXCEPT !.pc = "panic"]
         ELSE [st EXCEPT !.pc = "trailing_events", !.trailing_events = <<ev>>]
    ELSE st

\* one pass of the loop of parse::trailing_events on the reader's result ev
trailing_events_step(st, ev) ==
    IF ev.type = "Err" \/ ev.type = "Eof"
    THEN [st EXCEPT !.pc = "done", !.ret = ParseOk]
    ELSE [st EXCEPT !.trailing_events = Append(@, ev)]

ParseLoops == {"leading_events", "group", "layers", "trailing_events"}

\* Inkscape::parse_svg, advanced by one reader result
parse_step(st, ev) ==
    IF st.pc = "leading_events" THEN leading_events_step(st, ev)
    ELSE IF st.pc = "group" THEN group_step(st, ev)
    ELSE IF st.pc = "layers" THEN layers_step(st, ev)
    ELSE trailing_events_step(st, ev)

\* the program state as parse_step takes it
State == [pc |-> pc, leading_events |-> leading_events, layers |-> layers, grp |-> grp,
          trailing_events |-> trailing_events, ret |-> ret]

\* the state on entry to Inkscape::parse_svg
ParseStart == [pc |-> "leading_events", leading_events |-> <<>>, layers |-> <<>>,
               grp |-> None, trailing_events |-> <<>>, ret |-> NoRet]

RECURSIVE parse_svg(_, _)
\* Inkscape::parse_svg on a reader that returns the events of `stream` and
\* then Eof; the state is returned as it is after the first Eof if the parse
\* has not returned by then
parse_svg(st, stream) ==
    IF st.pc \notin ParseLoops THEN st
    ELSE IF stream = <<>> THEN parse_step(st, Eof)
    ELSE parse_svg(parse_step(st, Head(stream)), Tail(stream))

---------------------------------------------------------------------------
(* lib.rs: Layer and Inkscape operations *)

\* Layer::set_visible storing the rebuilt header as a self-closing event
set_visible_selfclosing(layer) ==
    IF layer.header.type # "Start" THEN Err("panic")
    ELSE Ok([layer EXCEPT !.header =
                 Empty(layer.header.name,
                       without_key(attributes_ok(layer.header.atts), "style"))])

\* Layer::set_visible; a header that is no Event::Start panics
set_visible(layer) ==
    IF layer.header.type # "Start" THEN Err("panic")
    ELSE Ok([layer EXCEPT !.header =
                 Start(layer.header.name,
                       without_key(attributes_ok(layer.header.atts), "style"))])

\* Layer::set_hidden; a header that is no Event::Start panics
set_hidden(layer) ==
    IF layer.header.type # "Start" THEN Err("panic")
    ELSE Ok([layer EXCEPT !.header =
                 Start(layer.header.name,
                       Append(without_key(attributes_ok(layer.header.atts), "style"),
                              Att("style", "display:none")))])

\* Rectangle::set_image with width and height of the identifiers exchanged
set_image_swapped(rect, base64_encoded) ==
    Image([id |-> rect.ident.id, width |-> rect.ident.height, height |-> rect.ident.width],
          [name |-> "image",
           atts |-> Append(without_key(attributes_ok(rect.element.atts), "style"),
                           Att("xlink:href", base64_encoded))])

\* Rectangle::set_image
set_image(rect, base64_encoded) ==
    Image(rect.ident,
          [name |-> "image",
           atts |-> Append(without_key(attributes_ok(rect.element.atts), "style"),
                           Att("xlink:href", base64_encoded))])

\* Image::update_image
update_image(img, base64_encoded) ==
    [img EXCEPT !.element =
        [name |-> img.element.name,
         atts |-> Append(without_key(attributes_ok(img.element.atts), "xlink:href"),
                         Att("xlink:href", base64_encoded))]]

RECURSIVE scan_any_rectangle(_, _, _, _)
\* the lookup with the id comparison of the Rectangle arm lost
scan_any_rectangle(ls, id, li, oi) ==
    IF li > Len(ls) THEN None
    ELSE IF oi > Len(ls[li].content) THEN scan_any_rectangle(ls, id, li + 1, 1)
    ELSE LET o == ls[li].content[oi] IN
         IF o.kind = "Rectangle" THEN Some(<<li, oi>>)
         ELSE IF o.kind = "Image" /\ o.ident.id = id THEN Some(<<li, oi>>)
         ELSE scan_any_rectangle(ls, id, li, oi + 1)

RECURSIVE scan_for_last(_, _, _, _)
\* the lookup going on after a match: the last Rectangle or Image with that id
scan_for_last(ls, id, li, oi) ==
    IF li > Len(ls) THEN None
    ELSE IF oi > Len(ls[li].content) THEN scan_for_last(ls, id, li + 1, 1)
    ELSE LET o == ls[li].content[oi]
             later == scan_for_last(ls, id, li, oi + 1)
         IN  IF o.kind \in {"Rectangle", "Image"} /\ o.ident.id = id /\ later = None
             THEN Some(<<li, oi>>)
             ELSE later

RECURSIVE scan_for_id(_, _, _, _)
\* the nested loops of Inkscape::id_to_image and Inkscape::dimensions: the
\* position <<layer, object>> of the first Rectangle or Image with that id,
\* searching from object oi of layer li on
scan_for_id(ls, id, li, oi) ==
    IF li > Len(ls) THEN None
    ELSE IF oi > Len(ls[li].content) THEN scan_for_id(ls, id, li + 1, 1)
    ELSE LET o == ls[li].content[oi] IN
         IF o.kind = "Rectangle" /\ o.ident.id = id THEN Some(<<li, oi>>)
         ELSE IF o.kind = "Image" /\ o.ident.id = id THEN Some(<<li, oi>>)
         ELSE scan_for_id(ls, id, li, oi + 1)

\* Inkscape::id_to_image moving the object it changes to the front of its layer
id_to_image_moving(ls, id, image) ==
    LET at == scan_for_id(ls, id, 1, 1) IN
    IF at = None
    THEN [layers |-> ls,
          ret |-> [op |-> "id_to_image", id |-> id, ok |-> FALSE, err |-> MissingId(id)]]
    ELSE LET li == at[1][1]
             oi == at[1][2]
             o  == ls[li].content[oi]
             n  == IF o.kind = "Rectangle" THEN set_image(o, image)
                   ELSE update_image(o, image)
         IN  [layers |-> [ls EXCEPT ![li].content =
                             <<n>> \o SubSeq(@, 1, oi - 1) \o SubSeq(@, oi + 1, Len(@))],
              ret |-> [op |-> "id_to_image", id |-> id, ok |-> TRUE,
                       via |-> IF o.kind = "Rectangle" THEN "set_image" ELSE "update_image",
                       at |-> at[1], image |-> image]]

\* Inkscape::id_to_image: the layers afterwards and what is returned
id_to_image(ls, id, image) ==
    LET at == scan_for_id(ls, id, 1, 1) IN
    IF at = None
    THEN [layers |-> ls,
          ret |-> [op |-> "id_to_image", id |-> id, ok |-> FALSE, err |-> MissingId(id)]]
    ELSE LET li == at[1][1]
             oi == at[1][2]
             o  == ls[li].content[oi]
         IN  IF o.kind = "Rectangle"
             THEN [layers |-> [ls EXCEPT ![li].content[oi] = set_image(o, image)],
                   ret |-> [op |-> "id_to_image", id |-> id, ok |-> TRUE,
                            via |-> "set_image", at |-> at[1], image |-> image]]
             ELSE [layers |-> [ls EXCEPT ![li].content[oi] = update_image(o, image)],
                   ret |-> [op |-> "id_to_image", id |-> id, ok |-> TRUE,
                            via |-> "update_image", at |-> at[1], image |-> image]]

\* Inkscape::dimensions with the Image arm of its match lost
dimensions_rectangles_only(ls, id) ==
    LET at == scan_for_id(ls, id, 1, 1) IN
    IF at = None \/ ls[at[1][1]].content[at[1][2]].kind # "Rectangle"
    THEN [op |-> "dimensions", id |-> id, ok |-> FALSE, err |-> MissingId(id)]
    ELSE LET o == ls[at[1][1]].content[at[1][2]] IN
         [op |-> "dimensions", id |-> id, ok |-> TRUE,
          value |-> <<o.ident.width, o.ident.height>>]

\* Inkscape::dimensions
dimensions(ls, id) ==
    LET at == scan_for_id(ls, id, 1, 1) IN
    IF at = None
    THEN [op |-> "dimensions", id |-> id, ok |-> FALSE, err |-> MissingId(id)]
    ELSE LET o == ls[at[1][1]].content[at[1][2]] IN
         [op |-> "dimensions", id |-> id, ok |-> TRUE,
          value |-> <<o.ident.width, o.ident.height>>]

\* IdIterator::new
IdIterator_new == [curr_group_idx |-> 0, curr_group_object_idx |-> 0]

RECURSIVE IdIterator_next_stops(_, _)
\* IdIterator::next ending the iteration at the first exhausted layer
IdIterator_next_stops(it, groups) ==
    IF it.curr_group_idx >= Len(groups) THEN [it |-> it, item |-> None]
    ELSE LET group == groups[it.curr_group_idx + 1] IN
         IF it.curr_group_object_idx < Len(group.content)
         THEN LET group_object == group.content[it.curr_group_object_idx + 1]
                  advanced == [it EXCEPT !.curr_group_object_idx = @ + 1]
              IN  IF group_object.kind = "Other"
                  THEN IdIterator_next_stops(advanced, groups)
                  ELSE [it |-> advanced, item |-> Some(group_object.ident.id)]
         ELSE [it |-> it, item |-> None]

RECURSIVE IdIterator_next(_, _)
\* IdIterator::next over `groups`: the iterator afterwards and the item
IdIterator_next(it, groups) ==
    IF it.curr_group_idx >= Len(groups) THEN [it |-> it, item |-> None]
    ELSE LET group == groups[it.curr_group_idx + 1] IN
         IF it.curr_group_object_idx < Len(group.content)
         THEN LET group_object == group.content[it.curr_group_object_idx + 1]
                  advanced == [it EXCEPT !.curr_group_object_idx = @ + 1]
              IN  IF group_object.kind = "Rectangle"
                  THEN [it |-> advanced, item |-> Some(group_object.ident.id)]
                  ELSE IF group_object.kind = "Image"
                  THEN [it |-> advanced, item |-> Some(group_object.ident.id)]
                  ELSE IdIterator_next(advanced, groups)
         ELSE IdIterator_next([curr_group_idx |-> it.curr_group_idx + 1,
                               curr_group_object_idx |-> 0], groups)

RECURSIVE object_ids(_, _)
\* Inkscape::object_ids().collect(): the items next() returns until None
object_ids(it, groups) ==
    LET r == IdIterator_next(it, groups) IN
    IF r.item = None THEN <<>> ELSE r.item \o object_ids(r.it, groups)

RECURSIVE content_events(_, _)
\* `for object in layer.content`: the events of the objects from index i on
content_events(content, i) ==
    IF i > Len(content) THEN <<>>
    ELSE <<[phase |-> "LayerBody", event |-> into_event(content[i])]>>
         \o content_events(content, i + 1)

RECURSIVE layer_events(_, _)
\* `for layer in self.layers`: header, body and footer of the layers from index i on
layer_events(ls, i) ==
    IF i > Len(ls) THEN <<>>
    ELSE <<[phase |-> "LayerHeader", event |-> ls[i].header]>>
         \o content_events(ls[i].content, 1)
         \o <<[phase |-> "LayerFooter", event |-> ls[i].footer]>>
         \o layer_events(ls, i + 1)

\* the write_event calls of Inkscape::write_svg, in order, each with the
\* error variant a failure of it is mapped to
write_calls(lead, ls, trail) ==
    [i \in 1..Len(lead) |-> [phase |-> "LeadingEvents", event |-> lead[i]]]
    \o layer_events(ls, 1)
    \o [i \in 1..Len(trail) |-> [phase |-> "TrailingEvents", event |-> trail[i]]]

\* Writer::write_event on a sink that accepts it: Event::Eof writes nothing
write_event(sink, event) ==
    IF event.type = "Eof" THEN sink ELSE Append(sink, event)

RECURSIVE write_all(_, _, _, _)
\* the first n write_event calls of `calls`, from index i on, on a sink that accepts them
write_all(sink, calls, i, n) ==
    IF i > n THEN sink
    ELSE write_all(write_event(sink, calls[i].event), calls, i + 1, n)

\* Inkscape::write_svg going on with the next event after a failed write_event
write_svg_resuming(lead, ls, trail, failAt) ==
    LET calls == write_calls(lead, ls, trail) IN
    IF failAt = 0
    THEN [written |-> write_all(<<>>, calls, 1, Len(calls)),
          ret |-> [op |-> "write_svg", ok |-> TRUE]]
    ELSE [written |-> write_all(write_all(<<>>, calls, 1, failAt - 1),
                                calls, failAt + 1, Len(calls)),
          ret |-> [op |-> "write_svg", ok |-> FALSE,
                   err |-> [error |-> calls[failAt].phase, event |-> calls[failAt].event]]]

\* Inkscape::write_svg on a writer whose failAt-th write_event fails (0: none
\* fails): the sink afterwards and what is returned
write_svg(lead, ls, trail, failAt) ==
    LET calls == write_calls(lead, ls, trail) IN
    IF failAt = 0
    THEN [written |-> write_all(<<>>, calls, 1, Len(calls)),
          ret |-> [op |-> "write_svg", ok |-> TRUE]]
    ELSE [written |-> write_all(<<>>, calls, 1, failAt - 1),
          ret |-> [op |-> "write_svg", ok |-> FALSE,
                   err |-> [error |-> calls[failAt].phase, event |-> calls[failAt].event]]]

---------------------------------------------------------------------------
(* The inputs the model explores *)

HeaderA   == Start("g", <<Att("style", "opacity:1"), Att("id", "layer1"),
                          Att("inkscape:label", "A")>>)
HeaderB   == Start("g", <<Att("id", "layer2"), Att("inkscape:label", "B")>>)
HeaderDup == Start("g", <<Att("id", "layer3"), Att("inkscape:label", "C"),
                          Att("id", "layer9")>>)
HeaderNoId    == Start("g", <<Att("inkscape:label", "A")>>)
HeaderNoLabel == Start("g", <<Att("id", "layer1")>>)
EndG      == End("g")
SvgOpen   == Start("svg", <<>>)
SvgClose  == End("svg")
EndText   == End("text")
Ws        == Text("ws")
Note      == Comment("note")
Rect1     == Empty("rect", <<Att("style", "fill:red"), Att("id", "r1"),
                             Att("width", "10"), Att("height", "20")>>)
Rect2     == Empty("rect", <<Att("id", "r1"), Att("width", "30"), Att("height", "40"),
                             Att("xlink:href", "old")>>)
Image1    == Empty("image", <<Att("id", "r2"), Att("width", "30"),
                              Att("xlink:href", "old"), Att("height", "40")>>)
Image2    == Empty("image", <<Att("id", "r2"), Att("width", "10"), Att("height", "20")>>)
Path1     == Empty("path", <<Att("id", "r1")>>)
RectNoWidth == Empty("rect", <<Att("id", "r1"), Att("height", "20")>>)

\* the events the reader of the parsing specification may return
Tokens == {HeaderA, HeaderB, HeaderNoId, HeaderNoLabel, EndG, SvgOpen, SvgClose, EndText,
           Ws, Note, Rect1, RectNoWidth, Path1}

\* the ids and payloads the editing operations are called with
Ids == {"r1", "r2", "layer1"}
Payloads == {"data:image/png;base64,AAAA", "data:image/png;base64,BBBB"}

\* the layers of the documents the editing operations are explored on
LayerForms == {<<HeaderB, EndG>>,
               <<HeaderA, Path1, Rect1, EndG>>,
               <<HeaderDup, Image1, Rect2, EndG>>,
               <<HeaderB, Path1, Image1, Image2, EndG>>}

\* the layers of the documents set_visible, set_hidden, id_to_image and
\* dimensions are called on: every form that holds an object
EditForms == {f \in LayerForms : Len(f) > 2}

RECURSIVE Flatten(_)
Flatten(ss) == IF ss = <<>> THEN <<>> ELSE Head(ss) \o Flatten(Tail(ss))

\* the input stream of a document with the given layers
DocStream(forms) == <<SvgOpen>> \o Flatten(forms) \o <<SvgClose>>

SeqsUpTo(S, n) == UNION {[1..k -> S] : k \in 1..n}

---------------------------------------------------------------------------
(* Parsing and writing *)

Init ==
    /\ input = <<>>
    /\ eofReads = 0
    /\ pc = "leading_events"
    /\ leading_events = <<>>
    /\ layers = <<>>
    /\ grp = None
    /\ trailing_events = <<>>
    /\ ret = NoRet
    /\ written = <<>>
    /\ iter = None

\* reader.read_event_into(buffer): the next event of the input, Eof once the
\* input has ended and on every read after that, or a read error
Read(ev) ==
    /\ \/ /\ ev \in Tokens
          /\ eofReads = 0
          /\ Len(input) < MaxTokens
          /\ input' = Append(input, ev)
          /\ eofReads' = eofReads
       \/ /\ ev = ReadErr
          /\ eofReads = 0
          /\ input' = Append(input, ev)
          /\ eofReads' = eofReads
       \/ /\ ev = Eof
          /\ eofReads < MaxEofReads
          /\ input' = input
          /\ eofReads' = eofReads + 1

\* the program moves to the state st that a pass of a parse loop gives
Advance(st) ==
    /\ pc' = st.pc
    /\ leading_events' = st.leading_events
    /\ layers' = st.layers
    /\ grp' = st.grp
    /\ trailing_events' = st.trailing_events
    /\ ret' = st.ret
    /\ UNCHANGED <<written, iter>>

ReaderResults == Tokens \cup {ReadErr, Eof}

LeadingEvents ==
    /\ pc = "leading_events"
    /\ \E ev \in ReaderResults : Read(ev) /\ Advance(leading_events_step(State, ev))

Group ==
    /\ pc = "group"
    /\ \E ev \in ReaderResults : Read(ev) /\ Advance(group_step(State, ev))

Layers ==
    /\ pc = "layers"
    /\ \E ev \in ReaderResults : Read(ev) /\ Advance(layers_step(State, ev))

TrailingEvents ==
    /\ pc = "trailing_events"
    /\ \E ev \in ReaderResults : Read(ev) /\ Advance(trailing_events_step(State, ev))

\* Inkscape::write_svg consumes the document
WriteSvg ==
    /\ pc = "done"
    /\ \E failAt \in 0..Len(write_calls(leading_events, layers, trailing_events)) :
          LET w == write_svg(leading_events, layers, trailing_events, failAt) IN
          /\ written' = w.written
          /\ ret' = w.ret
    /\ pc' = "written"
    /\ iter' = None
    /\ UNCHANGED <<input, eofReads, leading_events, layers, grp, trailing_events>>

Next == LeadingEvents \/ Group \/ Layers \/ TrailingEvents \/ WriteSvg

Spec == Init /\ [][Next]_vars

---------------------------------------------------------------------------
(* Editing a parsed document *)

\* the state after Inkscape::parse_svg has read the document with these layers
Parsed(forms) ==
    \E st \in {parse_svg(ParseStart, DocStream(forms))} :
    /\ input = DocStream(forms)
    /\ eofReads = 1
    /\ pc = st.pc
    /\ leading_events = st.leading_events
    /\ layers = st.layers
    /\ grp = st.grp
    /\ trailing_events = st.trailing_events
    /\ ret = st.ret
    /\ written = <<>>
    /\ iter = None

InitEdit == \E forms \in SeqsUpTo(EditForms, MaxDocLayers) : Parsed(forms)

InitIter == \E forms \in SeqsUpTo(LayerForms, MaxIterLayers) : Parsed(forms)

\* layer.set_visible() on a layer of get_layers_mut()
SetVisible ==
    /\ pc = "done"
    /\ \E i \in 1..Len(layers) :
          LET r == set_visible(layers[i]) IN
          IF r.ok
          THEN /\ layers' = [layers EXCEPT ![i] = r.value]
               /\ ret' = [op |-> "set_visible", layer |-> i]
               /\ pc' = pc
          ELSE /\ pc' = "panic"
               /\ ret' = NoRet
               /\ UNCHANGED layers
    /\ iter' = None
    /\ UNCHANGED <<input, eofReads, leading_events, grp, trailing_events, written>>

\* set_hidden() reaching every layer of get_layers_mut() instead of one
SetHiddenAll ==
    /\ pc = "done"
    /\ \E i \in 1..Len(layers) :
          /\ layers' = [l \in 1..Len(layers) |-> set_hidden(layers[l]).value]
          /\ ret' = [op |-> "set_hidden", layer |-> i]
          /\ pc' = pc
    /\ iter' = None
    /\ UNCHANGED <<input, eofReads, leading_events, grp, trailing_events, written>>

\* layer.set_hidden() on a layer of get_layers_mut()
SetHidden ==
    /\ pc = "done"
    /\ \E i \in 1..Len(layers) :
          LET r == set_hidden(layers[i]) IN
          IF r.ok
          THEN /\ layers' = [layers EXCEPT ![i] = r.value]
               /\ ret' = [op |-> "set_hidden", layer |-> i]
               /\ pc' = pc
          ELSE /\ pc' = "panic"
               /\ ret' = NoRet
               /\ UNCHANGED layers
    /\ iter' = None
    /\ UNCHANGED <<input, eofReads, leading_events, grp, trailing_events, written>>

IdToImage ==
    /\ pc = "done"
    /\ \E id \in Ids, image \in Payloads :
          LET r == id_to_image(layers, id, image) IN
          /\ layers' = r.layers
          /\ ret' = r.ret
    /\ iter' = None
    /\ UNCHANGED <<input, eofReads, pc, leading_events, grp, trailing_events, written>>

Dimensions ==
    /\ pc = "done"
    /\ \E id \in Ids : ret' = dimensions(layers, id)
    /\ iter' = None
    /\ UNCHANGED <<input, eofReads, pc, leading_events, layers, grp, trailing_events, written>>

\* Inkscape::object_ids: a new iterator; `yielded` and `ended` record what
\* its next() has returned
ObjectIds ==
    /\ pc = "done"
    /\ iter' = Some([it |-> IdIterator_new, yielded |-> <<>>, ended |-> FALSE])
    /\ ret' = [op |-> "object_ids"]
    /\ UNCHANGED <<input, eofReads, pc, leading_events, layers, grp, trailing_events, written>>

\* one call of next() on the iterator
IterNext ==
    /\ pc = "done"
    /\ iter # None
    /\ LET r == IdIterator_next(iter[1].it, layers) IN
       /\ iter' = Some([it |-> r.it,
                        yielded |-> iter[1].yielded \o r.item,
                        ended |-> (r.item = None)])
       /\ ret' = [op |-> "next", item |-> r.item]
    /\ UNCHANGED <<input, eofReads, pc, leading_events, layers, grp, trailing_events, written>>

NextEdit == SetVisible \/ SetHidden \/ IdToImage \/ Dimensions

SpecEdit == InitEdit /\ [][NextEdit]_vars

NextIter == ObjectIds \/ IterNext

SpecIter == InitIter /\ [][NextIter]_vars

---------------------------------------------------------------------------
(* Classifying one self-closing element *)

\* attribute lists a self-closing element may carry
MaxAtts == 3

AttPool == {Att("id", "r1"), Att("id", BadUtf8),
            Att("width", "10"), Att("width", "wide"),
            Att("height", "20"), Att("height", BadUtf8), Att("height", "tall"),
            Att("style", "fill:red")}

Elements == {Empty(n, a) : n \in {"rect", "image", "path"},
                           a \in {<<>>} \cup SeqsUpTo(AttPool, MaxAtts)}

InitObject ==
    /\ \E e \in Elements : input = <<e>>
    /\ eofReads = 0
    /\ pc = "object"
    /\ leading_events = <<>>
    /\ layers = <<>>
    /\ grp = None
    /\ trailing_events = <<>>
    /\ ret = NoRet
    /\ written = <<>>
    /\ iter = None

\* parse::object on the element of the event
ObjectCall ==
    /\ pc = "object"
    /\ ret' = [op |-> "object", result |-> object(Element(input[1]))]
    /\ pc' = "classified"
    /\ UNCHANGED <<input, eofReads, leading_events, layers, grp, trailing_events, written, iter>>

SpecObject == InitObject /\ [][ObjectCall]_vars

---------------------------------------------------------------------------
(* Assigning an image to one rect or image element *)

\* attributes a rect or image element of the input may carry
MaxImageAtts == 5

ImagePool == {Att("id", "r1"), Att("width", "10"), Att("height", "20"),
              Att("style", "fill:red"), Att("xlink:href", "old")}

\* the rect and image elements that parse::object accepts
ImageElements == {e \in {Empty(n, a) : n \in {"rect", "image"},
                                       a \in SeqsUpTo(ImagePool, MaxImageAtts)} :
                     object(Element(e)).ok}

\* a parsed document of one layer that holds one such element
InitImage == \E e \in ImageElements : Parsed(<<(<<HeaderB, e, EndG>>)>>)

SpecImage == InitImage /\ [][IdToImage]_vars

---------------------------------------------------------------------------
(* Parsing a whole document of groups separated by text *)

\* groups of a document
MaxGroups == 3
\* text events after a group
MaxSeps == 1

RECURSIVE Texts(_)
Texts(n) == IF n = 0 THEN <<>> ELSE <<Ws>> \o Texts(n - 1)

RECURSIVE Separated(_, _, _)
\* the groups from index i on, each followed by seps[i] text events
Separated(forms, seps, i) ==
    IF i > Len(forms) THEN <<>>
    ELSE forms[i] \o Texts(seps[i]) \o Separated(forms, seps, i + 1)

\* the reader is given <svg>, groups separated by text, </svg>
InitLayers ==
    /\ \E forms \in SeqsUpTo(LayerForms, MaxGroups) :
          \E seps \in [1..Len(forms) -> 0..MaxSeps] :
             input = <<SvgOpen>> \o Separated(forms, seps, 1) \o <<SvgClose>>
    /\ eofReads = 0
    /\ pc = "start"
    /\ leading_events = <<>>
    /\ layers = <<>>
    /\ grp = None
    /\ trailing_events = <<>>
    /\ ret = NoRet
    /\ written = <<>>
    /\ iter = None

\* Inkscape::parse_svg on a reader that returns the events of input, then Eof
ParseSvg ==
    /\ pc = "start"
    /\ \E st \in {parse_svg(ParseStart, input)} :
          /\ pc' = st.pc
          /\ leading_events' = st.leading_events
          /\ layers' = st.layers
          /\ grp' = st.grp
          /\ trailing_events' = st.trailing_events
          /\ ret' = st.ret
    /\ eofReads' = 1
    /\ UNCHANGED <<input, written, iter>>

SpecLayers == InitLayers /\ [][ParseSvg]_vars

---------------------------------------------------------------------------
(* Properties *)

Last(s) == s[Len(s)]

\* the step is a read that returned Eof
ReadsEof == eofReads' = eofReads + 1

RECURSIVE WellFormedFrom(_, _, _)
\* the events of s from index i on continue a stream of the shape: prologue,
\* layers separated by text, comments or self-closing elements, epilogue
WellFormedFrom(s, i, phase) ==
    IF i > Len(s) THEN phase \in {"between", "epilogue"}
    ELSE LET ev == s[i]
             isG == ev.type = "Start" /\ ev.name = "g"
         IN  IF ev.type \in {"Err", "Eof"} THEN FALSE
             ELSE IF phase = "prologue"
             THEN IF isG THEN group_start(ev).ok /\ WellFormedFrom(s, i + 1, "layer")
                  ELSE WellFormedFrom(s, i + 1, "prologue")
             ELSE IF phase = "layer"
             THEN IF ev.type = "End" /\ ev.name = "g" THEN WellFormedFrom(s, i + 1, "between")
                  ELSE IF isG THEN FALSE
                  ELSE IF ev.type = "Empty"
                  THEN object(Element(ev)).ok /\ WellFormedFrom(s, i + 1, "layer")
                  ELSE WellFormedFrom(s, i + 1, "layer")
             ELSE IF phase = "between"
             THEN IF isG THEN group_start(ev).ok /\ WellFormedFrom(s, i + 1, "layer")
                  ELSE IF ev.type \in {"Text", "Comment", "Empty"}
                  THEN WellFormedFrom(s, i + 1, "between")
                  ELSE WellFormedFrom(s, i + 1, "epilogue")
             ELSE ~isG /\ WellFormedFrom(s, i + 1, "epilogue")

WellFormed(s) == WellFormedFrom(s, 1, "prologue")

\* C1: parsing a well-formed stream and writing the document back without
\* editing it emits exactly the events that were read, in order.
C1_RoundTrip ==
    (pc = "written" /\ ret.ok /\ WellFormed(input)) => written = input

\* C2: when the reader reports the end of the stream inside a layer, parse_svg
\* returns MissingLayerEnd naming that layer instead of reading on.
C2_UnterminatedLayer ==
    [][(pc = "group" /\ ReadsEof)
        => (pc' = "err" /\ ret' = ParseErr(MissingLayerEnd(grp[1].name)))]_vars

\* C3: when the reader reports the end of the stream in the prologue phase,
\* parse_svg returns a document holding the events read so far as prologue, no
\* layers and no epilogue.
C3_EofInPrologue ==
    [][(pc = "leading_events" /\ ReadsEof)
        => (/\ pc' = "done"
            /\ ret' = ParseOk
            /\ leading_events' = input
            /\ layers' = <<>>
            /\ trailing_events' = <<>>)]_vars

\* C4: when the reader reports the end of the stream after a completed layer,
\* the layer phase ends and parse_svg returns the layers parsed so far.
C4_EofAfterLayer ==
    [][(pc = "layers" /\ ReadsEof)
        => (pc' = "done" /\ ret' = ParseOk /\ layers' = layers)]_vars

RECURSIVE IdsOfContent(_)
\* the ids of the Rectangle and Image objects of a content sequence, in order
IdsOfContent(content) ==
    IF content = <<>> THEN <<>>
    ELSE (IF Head(content).kind \in {"Rectangle", "Image"}
          THEN <<Head(content).ident.id>> ELSE <<>>)
         \o IdsOfContent(Tail(content))

RECURSIVE IdsOfLayers(_)
IdsOfLayers(ls) ==
    IF ls = <<>> THEN <<>> ELSE IdsOfContent(Head(ls).content) \o IdsOfLayers(Tail(ls))

IsPrefix(a, b) == Len(a) <= Len(b) /\ a = SubSeq(b, 1, Len(a))

\* C5: an iterator of object_ids() yields the ids of the Rectangle and Image
\* objects in document order, nothing else, and returns None exactly when all
\* of them have been yielded; so does every fresh iterator.
C5_DocumentOrderIteration ==
    iter # None =>
        /\ IsPrefix(iter[1].yielded, IdsOfLayers(layers))
        /\ iter[1].ended => iter[1].yielded = IdsOfLayers(layers)

\* an exhausted iterator over empty first, second and last layers with ids between
C5_Witness ==
    /\ iter # None
    /\ iter[1].ended
    /\ Len(layers) = 4
    /\ layers[1].content = <<>>
    /\ layers[2].content = <<>>
    /\ layers[4].content = <<>>
    /\ Len(iter[1].yielded) = 1
    /\ \E i \in 1..Len(layers[3].content) : layers[3].content[i].kind = "Other"

\* some Rectangle or Image object has this id
HasId(ls, id) ==
    \E li \in 1..Len(ls) : \E oi \in 1..Len(ls[li].content) :
        /\ ls[li].content[oi].kind \in {"Rectangle", "Image"}
        /\ ls[li].content[oi].ident.id = id

\* C6: dimensions and id_to_image on an id no Rectangle or Image has return
\* MissingId with that id and leave the document as it was.
C6_MissingId ==
    [][(ret'.op \in {"dimensions", "id_to_image"} /\ ~HasId(layers, ret'.id))
        => (/\ ~ret'.ok
            /\ ret'.err = MissingId(ret'.id)
            /\ layers' = layers
            /\ leading_events' = leading_events
            /\ trailing_events' = trailing_events)]_vars

\* id_to_image failed for an id that an Other object carries
C6_Witness ==
    /\ ret.op = "id_to_image"
    /\ ~ret.ok
    /\ \E li \in 1..Len(layers) : \E oi \in 1..Len(layers[li].content) :
          /\ layers[li].content[oi].kind = "Other"
          /\ find_key(layers[li].content[oi].event.atts, "id") = Some(Att("id", ret.id))

\* the first Rectangle or Image with this id in document order is at <<li, oi>>
FirstMatchAt(ls, id, li, oi) ==
    /\ li \in 1..Len(ls)
    /\ oi \in 1..Len(ls[li].content)
    /\ ls[li].content[oi].kind \in {"Rectangle", "Image"}
    /\ ls[li].content[oi].ident.id = id
    /\ \A lj \in 1..li : \A oj \in 1..Len(ls[lj].content) :
          (lj < li \/ oj < oi) =>
              ~(/\ ls[lj].content[oj].kind \in {"Rectangle", "Image"}
                /\ ls[lj].content[oj].ident.id = id)

\* the object an id resolves to is an Image, at <<li, oi>>
ResolvesToImageAt(ls, id, li, oi) ==
    FirstMatchAt(ls, id, li, oi) /\ ls[li].content[oi].kind = "Image"

\* C7: id_to_image on a Rectangle leaves an Image with the same identifiers at
\* the same position and dimensions(id) unchanged; an id that resolves to an
\* Image keeps resolving to an Image at that position, and id_to_image on it
\* goes through update_image.
C7_PromotionKeepsIdentity ==
    [][/\ (ret'.op = "id_to_image" /\ ret'.ok /\ ret'.via = "set_image") =>
            LET li == ret'.at[1]
                oi == ret'.at[2]
            IN  /\ FirstMatchAt(layers, ret'.id, li, oi)
                /\ layers[li].content[oi].kind = "Rectangle"
                /\ layers'[li].content[oi].kind = "Image"
                /\ layers'[li].content[oi].ident = layers[li].content[oi].ident
                /\ dimensions(layers', ret'.id) = dimensions(layers, ret'.id)
                /\ dimensions(layers', ret'.id).ok
       /\ \A id \in Ids : \A li \in 1..Len(layers) : \A oi \in 1..Len(layers[li].content) :
            ResolvesToImageAt(layers, id, li, oi) =>
                /\ ResolvesToImageAt(layers', id, li, oi)
                /\ (ret'.op = "id_to_image" /\ ret'.id = id) =>
                        (ret'.ok /\ ret'.via = "update_image" /\ ret'.at = <<li, oi>>)
      ]_vars

\* an id that only rectangles carried at parse time is assigned through update_image
C7_Witness ==
    /\ ret.op = "id_to_image"
    /\ ret.ok
    /\ ret.via = "update_image"
    /\ ret.id = "r1"

NonStyle(atts) == SelectAtts(atts, [i \in 1..Len(atts) |-> atts[i].key # "style"], 1)

\* C8: set_hidden leaves the header's other attributes, in order, followed by
\* style="display:none"; a second set_hidden changes nothing more.
C8_SetHidden ==
    [][ret'.op = "set_hidden" =>
          LET i == ret'.layer IN
          /\ layers'[i].header.atts =
                Append(NonStyle(layers[i].header.atts), Att("style", "display:none"))
          /\ set_hidden(layers'[i]) = Ok(layers'[i])]_vars

\* C9: set_visible leaves the header's other attributes, in order, and no
\* style attribute; a header without style is left as it was.
C9_SetVisible ==
    [][ret'.op = "set_visible" =>
          LET i == ret'.layer IN
          /\ layers'[i].header.atts = NonStyle(layers[i].header.atts)
          /\ (find_key(layers[i].header.atts, "style") = None =>
                  layers'[i].header.atts = layers[i].header.atts)]_vars

Carries(e, k) == \E i \in 1..Len(e.atts) : e.atts[i].key = k

\* every id, width and height attribute of the element decodes and parses
Parseable(e) ==
    \A i \in 1..Len(e.atts) :
        /\ e.atts[i].key \in {"id", "width", "height"} => e.atts[i].value # BadUtf8
        /\ e.atts[i].key \in {"width", "height"} => e.atts[i].value \in F64Text

FirstValue(e, k) == e.atts[CHOOSE i \in 1..Len(e.atts) :
                              /\ e.atts[i].key = k
                              /\ \A j \in 1..(i - 1) : e.atts[j].key # k].value

\* C10: a rect or image element with parseable id, width and height becomes a
\* Rectangle or Image with those identifiers; one lacking any of the three is
\* an identifier error; an element of another name becomes Other unchanged.
C10_Classification ==
    pc = "classified" =>
        LET e == input[1]
            r == ret.result
        IN  IF e.name \in {"rect", "image"}
            THEN IF Carries(e, "id") /\ Carries(e, "width") /\ Carries(e, "height")
                 THEN Parseable(e) =>
                        /\ r.ok
                        /\ r.value.kind = (IF e.name = "rect" THEN "Rectangle" ELSE "Image")
                        /\ r.value.ident = [id |-> FirstValue(e, "id"),
                                            width |-> parse_f64(FirstValue(e, "width")),
                                            height |-> parse_f64(FirstValue(e, "height"))]
                        /\ r.value.element = Element(e)
                 ELSE ~r.ok /\ r.err.error \in IdentifierErrors
            ELSE r = Ok(Other(e))

\* a rect with id and width but no height was refused
C10_Witness ==
    /\ pc = "classified"
    /\ input[1].name = "rect"
    /\ Carries(input[1], "id")
    /\ Carries(input[1], "width")
    /\ ~Carries(input[1], "height")
    /\ Parseable(input[1])
    /\ ~ret.result.ok

\* C11: Rectangle::set_image gives an element named "image" whose attributes
\* are the rectangle's attributes other than style, in their order, followed
\* by one xlink:href attribute holding the payload supplied.
C11_SetImage ==
    [][(ret'.op = "id_to_image" /\ ret'.ok /\ ret'.via = "set_image") =>
          LET rect == layers[ret'.at[1]].content[ret'.at[2]]
              img  == layers'[ret'.at[1]].content[ret'.at[2]]
          IN  /\ img.kind = "Image"
              /\ img.element.name = "image"
              /\ img.element.atts = Append(NonStyle(rect.element.atts),
                                           Att("xlink:href", ret'.image))]_vars

NonHref(atts) == SelectAtts(atts, [i \in 1..Len(atts) |-> atts[i].key # "xlink:href"], 1)

\* C12: Image::update_image leaves the element's name and identifiers as they
\* were and its attributes other than xlink:href in their order, followed by
\* the only xlink:href attribute, which holds the new payload.
C12_UpdateImage ==
    [][(ret'.op = "id_to_image" /\ ret'.ok /\ ret'.via = "update_image") =>
          LET old == layers[ret'.at[1]].content[ret'.at[2]]
              new == layers'[ret'.at[1]].content[ret'.at[2]]
          IN  /\ new.kind = "Image"
              /\ new.element.name = old.element.name
              /\ new.ident = old.ident
              /\ new.element.atts = Append(NonHref(old.element.atts),
                                           Att("xlink:href", ret'.image))]_vars

\* all layers and objects other than the object at <<li, oi>> are the same in ls and ms
SameButAt(ls, ms, li, oi) ==
    /\ Len(ms) = Len(ls)
    /\ \A l \in 1..Len(ls) :
          /\ ms[l].id = ls[l].id
          /\ ms[l].name = ls[l].name
          /\ ms[l].header = ls[l].header
          /\ ms[l].footer = ls[l].footer
          /\ Len(ms[l].content) = Len(ls[l].content)
          /\ \A o \in 1..Len(ls[l].content) :
                <<l, o>> # <<li, oi>> => ms[l].content[o] = ls[l].content[o]

\* C13: dimensions(id) returns the width and height of the first Rectangle or
\* Image with that id in document order, Other objects passed over;
\* id_to_image(id, payload) changes that object and nothing else; and whatever
\* operation is called, the first object with an id stays at its position.
C13_FirstMatchWins ==
    [][/\ (ret'.op = "dimensions" /\ HasId(layers, ret'.id)) =>
            /\ ret'.ok
            /\ \E li \in 1..Len(layers) : \E oi \in 1..Len(layers[li].content) :
                  /\ FirstMatchAt(layers, ret'.id, li, oi)
                  /\ ret'.value = <<layers[li].content[oi].ident.width,
                                    layers[li].content[oi].ident.height>>
            /\ layers' = layers
       /\ (ret'.op = "id_to_image" /\ HasId(layers, ret'.id)) =>
            /\ ret'.ok
            /\ FirstMatchAt(layers, ret'.id, ret'.at[1], ret'.at[2])
            /\ SameButAt(layers, layers', ret'.at[1], ret'.at[2])
            /\ find_key(NonStyle(layers'[ret'.at[1]].content[ret'.at[2]].element.atts),
                        "xlink:href") # None
       /\ \A id \in Ids : \A li \in 1..Len(layers) : \A oi \in 1..Len(layers[li].content) :
            FirstMatchAt(layers, id, li, oi) => FirstMatchAt(layers', id, li, oi)
      ]_vars

\* a second id_to_image on an id that a later layer's object shares and that
\* an Other object before the first match carries
C13_Witness ==
    /\ ret.op = "id_to_image"
    /\ ret.ok
    /\ ret.via = "update_image"
    /\ ret.at = <<1, 2>>
    /\ layers[1].content[1].kind = "Other"
    /\ find_key(layers[1].content[1].event.atts, "id") = Some(Att("id", ret.id))
    /\ Len(layers) = 2
    /\ \E oi \in 1..Len(layers[2].content) :
          /\ layers[2].content[oi].kind = "Rectangle"
          /\ layers[2].content[oi].ident.id = ret.id

\* no event of the sequence is a <g> open tag
NoGroupStart(events) ==
    \A i \in 1..Len(events) : ~(events[i].type = "Start" /\ events[i].name = "g")

\* C14: in a document that parse_svg returned, neither leading_events nor
\* trailing_events holds a <g> open tag, wherever in the input it came.
C14_NoGroupOutsideLayers ==
    (pc = "done" /\ ret = ParseOk) =>
        (NoGroupStart(leading_events) /\ NoGroupStart(trailing_events))

\* the step is a read that returned an error
ReadsErr == input' = Append(input, ReadErr)

\* C15: when a read fails while parse_svg is in one of its loops, parse_svg
\* returns an Err; it returns no document and does not panic.
C15_ReadErrorReturned ==
    [][(pc \in ParseLoops /\ ReadsErr) => (pc' = "err" /\ ~ret'.ok)]_vars

\* the events of one layer as the document orders them
EventsOfLayer(layer) ==
    <<layer.header>> \o [i \in 1..Len(layer.content) |-> into_event(layer.content[i])]
    \o <<layer.footer>>

RECURSIVE EventsOfLayers(_)
EventsOfLayers(ls) ==
    IF ls = <<>> THEN <<>> ELSE EventsOfLayer(Head(ls)) \o EventsOfLayers(Tail(ls))

\* the events of the document in document order
EventsOfDocument == leading_events \o EventsOfLayers(layers) \o trailing_events

RECURSIVE PhaseInLayers(_, _)
\* the part of a layer that the k-th event of the layers belongs to
PhaseInLayers(ls, k) ==
    LET n == Len(Head(ls).content) IN
    IF k = 1 THEN "LayerHeader"
    ELSE IF k <= n + 1 THEN "LayerBody"
    ELSE IF k = n + 2 THEN "LayerFooter"
    ELSE PhaseInLayers(Tail(ls), k - (n + 2))

\* the part of the document that its k-th event belongs to
PhaseOfDocument(k) ==
    IF k <= Len(leading_events) THEN "LeadingEvents"
    ELSE IF k > Len(leading_events) + Len(EventsOfLayers(layers)) THEN "TrailingEvents"
    ELSE PhaseInLayers(layers, k - Len(leading_events))

ReadsGroupStart ==
    /\ Len(input') = Len(input) + 1
    /\ Last(input').type = "Start"
    /\ Last(input').name = "g"

\* C17: a <g> open tag read in the prologue or between layers that has no id
\* attribute makes parse_svg return MissingLayerId, one with id but without
\* inkscape:label makes it return MissingLayerName; the error is returned on
\* reading the open tag, nothing after it is read and no document is built.
C17_RequiredLayerAttributes ==
    [][(pc \in {"leading_events", "layers"} /\ ReadsGroupStart) =>
          LET ev == Last(input') IN
          /\ ~Carries(ev, "id") =>
                (pc' = "err" /\ ret' = ParseErr(MissingLayerId(ev)))
          /\ (Carries(ev, "id") /\ ~Carries(ev, "inkscape:label")) =>
                (pc' = "err" /\ ret' = ParseErr(MissingLayerName(ev)))
          /\ (Carries(ev, "id") /\ Carries(ev, "inkscape:label")) =>
                (pc' = "group" /\ grp'[1].content = <<>>)]_vars

\* after a completed layer, a <g> with id and without label was refused
C17_Witness ==
    /\ pc = "err"
    /\ ret.err.error = "MissingLayerName"
    /\ Len(layers) = 1
    /\ Last(input) = HeaderNoLabel

\* the <g> open tags of a stream, in order
GroupStarts(stream) ==
    SelectSeq(stream, LAMBDA ev : ev.type = "Start" /\ ev.name = "g")

\* C18: for a stream of groups that follow one another with nothing but text
\* between them, parse_svg returns one Layer per group, in the order of the
\* stream, with the id and name given by the group's id and inkscape:label.
C18_LayerList ==
    pc # "start" =>
        /\ pc = "done"
        /\ ret = ParseOk
        /\ Len(layers) = Len(GroupStarts(input))
        /\ \A i \in 1..Len(layers) :
              /\ layers[i].header = GroupStarts(input)[i]
              /\ layers[i].id = FirstValue(layers[i].header, "id")
              /\ layers[i].name = FirstValue(layers[i].header, "inkscape:label")

\* three groups were parsed with text after the first and the second
C18_Witness ==
    /\ pc = "done"
    /\ Len(layers) = 3
    /\ layers[1].id # layers[2].id
    /\ \E i, j \in 1..(Len(input) - 1) :
          /\ i < j
          /\ input[i] = Ws /\ input[i + 1].name = "g"
          /\ input[j] = Ws /\ input[j + 1].name = "g"

\* the step is a read that returned an event other than a <g> open tag
ReadsOtherEvent ==
    /\ Len(input') = Len(input) + 1
    /\ Last(input').type # "Err"
    /\ ~(Last(input').type = "Start" /\ Last(input').name = "g")

\* C19: after a completed layer, the first event read that is no <g> open
\* tag, of whatever kind, ends the loop of parse::layers and is the first
\* trailing event; no such event is dropped and none panics.
C19_LayerPhaseEnds ==
    [][(pc = "layers" /\ ReadsOtherEvent) =>
          (pc' = "trailing_events" /\ trailing_events' = <<Last(input')>>)]_vars

\* the step is a read that returned an event
ReadsEvent == Len(input') = Len(input) + 1 /\ Last(input').type # "Err"

\* C20: inside a layer, a self-closing event is classified and appended to
\* the content, the first </g> read is the footer and completes the layer
\* whatever was opened inside it, and every other event (an open tag, <g>
\* included, a close tag, text, a comment) is appended as Other unchanged.
C20_GroupParsing ==
    [][(pc = "group" /\ ReadsEvent) =>
          LET ev == Last(input')
              g  == grp[1]
          IN  IF ev.type = "Empty"
              THEN IF object(Element(ev)).ok
                   THEN /\ pc' = "group"
                        /\ grp'[1].content = Append(g.content, object(Element(ev)).value)
                        /\ layers' = layers
                   ELSE pc' = "err" /\ ret'.err.error = "ParseObject"
              ELSE IF ev = End("g")
              THEN /\ pc' = "layers"
                   /\ layers' = Append(layers, Layer(g.id, g.name, g.start_event, g.content, ev))
              ELSE /\ pc' = "group"
                   /\ grp'[1].content = Append(g.content, Other(ev))
                   /\ grp'[1].start_event = g.start_event
                   /\ layers' = layers]_vars

\* a layer that holds text and a nested <g> without id was completed by the
\* first </g>
C20_Witness ==
    /\ pc = "layers"
    /\ input = <<HeaderB, Ws, HeaderNoId, EndG>>
    /\ Len(layers) = 1
    /\ layers[1].content = <<Other(Ws), Other(HeaderNoId)>>
    /\ layers[1].footer = EndG

\* the attribute key that a DimensionOrId names
KeyOfDimension(d) ==
    IF d = "Width" THEN "width" ELSE IF d = "Height" THEN "height" ELSE "id"

\* C21: a DimensionUtf8 error names a field of which the element has an
\* attribute whose value is not UTF-8, and a DimensionParse error names a
\* dimension of which the element has an attribute whose value is UTF-8 and
\* no number.
C21_ErrorNamesFailedField ==
    (pc = "classified" /\ ~ret.result.ok) =>
        LET e   == input[1]
            err == ret.result.err
        IN  /\ err.error = "DimensionUtf8" =>
                  \E i \in 1..Len(e.atts) :
                      /\ e.atts[i].key = KeyOfDimension(err.dimension)
                      /\ e.atts[i].value = BadUtf8
            /\ err.error = "DimensionParse" =>
                  \E i \in 1..Len(e.atts) :
                      /\ e.atts[i].key = KeyOfDimension(err.dimension)
                      /\ e.atts[i].key \in {"width", "height"}
                      /\ e.atts[i].value # BadUtf8
                      /\ e.atts[i].value \notin F64Text

\* the step is a read that returned a self-closing rect or image whose
\* identifiers cannot be extracted
ReadsFailingObject ==
    /\ ReadsEvent
    /\ Last(input').type = "Empty"
    /\ Last(input').name \in {"rect", "image"}
    /\ ~from_elem(Element(Last(input'))).ok

\* C22: a self-closing rect or image inside a layer whose identifiers cannot
\* be extracted makes parse_svg return ParseObject with the extraction error
\* and the inkscape:label of the layer being read; no document is returned,
\* whatever layers were completed before.
C22_ObjectFailureAborts ==
    [][(pc = "group" /\ ReadsFailingObject) =>
          /\ pc' = "err"
          /\ ret' = ParseErr(ParseObject(from_elem(Element(Last(input'))).err,
                                         FirstValue(grp[1].start_event, "inkscape:label")))]_vars

\* the second layer's rect without width ended the parse after a first layer
\* of another name was completed
C22_Witness ==
    /\ pc = "err"
    /\ ret.err.error = "ParseObject"
    /\ Len(layers) = 1
    /\ layers[1].name # ret.err.layer_name
    /\ Last(input) = RectNoWidth

\* C23: set_visible and set_hidden change nothing but the attributes of the
\* header of the layer they are called on: its id, name, content, footer and
\* the header's element name, all other layers, the leading and the trailing
\* events stay, and every layer's id and name are those of its open tag in
\* the input.
C23_VisibilityFrame ==
    [][ret'.op \in {"set_visible", "set_hidden"} =>
          LET i == ret'.layer IN
          /\ Len(layers') = Len(layers)
          /\ \A l \in 1..Len(layers) : l # i => layers'[l] = layers[l]
          /\ layers'[i].id = layers[i].id
          /\ layers'[i].name = layers[i].name
          /\ layers'[i].content = layers[i].content
          /\ layers'[i].footer = layers[i].footer
          /\ layers'[i].header.type = layers[i].header.type
          /\ layers'[i].header.name = layers[i].header.name
          /\ leading_events' = leading_events
          /\ trailing_events' = trailing_events
          /\ \A l \in 1..Len(layers') :
                /\ layers'[l].id = FirstValue(GroupStarts(input)[l], "id")
                /\ layers'[l].name = FirstValue(GroupStarts(input)[l], "inkscape:label")]_vars

\* the second layer's header was shown after its attributes had been changed,
\* the first layer's header being as parsed
C23_Witness ==
    /\ ret.op = "set_visible"
    /\ ret.layer = 2
    /\ Len(layers) = 2
    /\ layers[2].header # GroupStarts(input)[2]
    /\ layers[1].header = GroupStarts(input)[1]
    /\ layers[1].content # <<>>

\* C24: in every document that parse_svg returned and set_visible, set_hidden
\* and id_to_image were then called on, each layer's header is a <g> open tag
\* and its footer a </g> close tag, and no call has panicked.
C24_LayerShape ==
    /\ pc # "panic"
    /\ \A l \in 1..Len(layers) :
          /\ layers[l].header.type = "Start"
          /\ layers[l].header.name = "g"
          /\ layers[l].footer = End("g")

\* an image was assigned in a document one of whose headers a visibility
\* call had changed before
C24_Witness ==
    /\ ret.op = "id_to_image"
    /\ ret.ok
    /\ \E l \in 1..Len(layers) : layers[l].header # GroupStarts(input)[l]

\* C25: a successful id_to_image leaves every layer with the same number of
\* objects, changes no object but the one it resolved, no header, no footer,
\* no leading and no trailing event, and object_ids() yields the same
\* sequence after the call as before.
C25_AssignImageFrame ==
    [][(ret'.op = "id_to_image" /\ ret'.ok) =>
          /\ SameButAt(layers, layers', ret'.at[1], ret'.at[2])
          /\ layers[ret'.at[1]].content[ret'.at[2]].kind \in {"Rectangle", "Image"}
          /\ layers[ret'.at[1]].content[ret'.at[2]].ident.id = ret'.id
          /\ leading_events' = leading_events
          /\ trailing_events' = trailing_events
          /\ object_ids(IdIterator_new, layers') = object_ids(IdIterator_new, layers)]_vars

\* a rectangle that is not the first object of its layer became an image
\* while another layer holds an object of the same id
C25_Witness ==
    /\ ret.op = "id_to_image"
    /\ ret.ok
    /\ ret.via = "set_image"
    /\ ret.at[2] > 1
    /\ \E l \in 1..Len(layers) : \E o \in 1..Len(layers[l].content) :
          /\ l # ret.at[1]
          /\ layers[l].content[o].kind \in {"Rectangle", "Image"}
          /\ layers[l].content[o].ident.id = ret.id

\* the values of the xlink:href attributes of an attribute sequence, in order
HrefValues(atts) ==
    [i \in 1..Len(SelectAtts(atts, [j \in 1..Len(atts) |-> atts[j].key = "xlink:href"], 1)) |->
        SelectAtts(atts, [j \in 1..Len(atts) |-> atts[j].key = "xlink:href"], 1)[i].value]

\* C26: after a successful id_to_image the element of the object it resolved
\* has exactly one xlink:href attribute, whose value is the payload of that
\* call, whatever the element carried before.
C26_SinglePayload ==
    [][(ret'.op = "id_to_image" /\ ret'.ok) =>
          HrefValues(layers'[ret'.at[1]].content[ret'.at[2]].element.atts)
              = <<ret'.image>>]_vars

\* C27: set_visible on a hidden layer whose open tag in the input has no
\* style attribute restores the header to that open tag; on a layer whose
\* open tag has a style attribute it does not.
C27_HideShowRoundTrip ==
    [][ret'.op = "set_visible" =>
          LET i == ret'.layer
              parsed == GroupStarts(input)[i]
          IN  /\ (~Carries(parsed, "style") /\ Carries(layers[i].header, "style")) =>
                    layers'[i].header = parsed
              /\ Carries(parsed, "style") => layers'[i].header # parsed]_vars

RECURSIVE IdentifiedOfLayers(_)
\* the Rectangle and Image objects of the layers, in document order
IdentifiedOfLayers(ls) ==
    IF ls = <<>> THEN <<>>
    ELSE SelectSeq(Head(ls).content, LAMBDA o : o.kind \in {"Rectangle", "Image"})
         \o IdentifiedOfLayers(Tail(ls))

\* the index of the first item of a sequence that equals x
FirstIndex(seq, x) ==
    CHOOSE k \in 1..Len(seq) : seq[k] = x /\ \A j \in 1..(k - 1) : seq[j] # x

\* C28: in every state of a document, dimensions(id) succeeds for exactly the
\* ids that object_ids() yields, and returns the width and height of the
\* first object whose id object_ids() yields as that id.
C28_IterationAgreesWithLookup ==
    pc = "done" =>
        LET yielded == object_ids(IdIterator_new, layers)
            objects == IdentifiedOfLayers(layers)
        IN  /\ Len(yielded) = Len(objects)
            /\ \A k \in 1..Len(objects) : yielded[k] = objects[k].ident.id
            /\ \A id \in Ids \cup {yielded[k] : k \in 1..Len(yielded)} :
                  IF \E k \in 1..Len(yielded) : yielded[k] = id
                  THEN /\ dimensions(layers, id).ok
                       /\ dimensions(layers, id).value =
                             <<objects[FirstIndex(yielded, id)].ident.width,
                               objects[FirstIndex(yielded, id)].ident.height>>
                  ELSE ~dimensions(layers, id).ok

\* a document that yields r2 twice and r1 after it, the first r2 object
\* having been assigned an image
C28_Witness ==
    /\ pc = "done"
    /\ ret.op = "id_to_image"
    /\ ret.ok
    /\ ret.id = "r2"
    /\ object_ids(IdIterator_new, layers) = <<"r2", "r2", "r2", "r1">>

====
